---- MODULE Spec2Model ----
(***************************************************************************)
(* lockstat-solution.py: a BPF program of four uprobe handlers that        *)
(* correlate pthread_mutex_init / pthread_mutex_lock (entry and return) /  *)
(* pthread_mutex_unlock events per thread into per-(thread, mutex, stack)  *)
(* statistics and two log2 histograms, and a Python loop that renders the  *)
(* tables every five seconds.                                              *)
(*                                                                         *)
(* BPF hash tables are modelled as functions whose DOMAIN is the set of    *)
(* keys present.  Timestamps are nanoseconds of the monotonic clock.       *)
(* The u64 arithmetic of the handlers is modelled on the integers: with a  *)
(* monotonic clock no difference is negative and the bounds below stay far *)
(* from 2^64.                                                              *)
(*                                                                         *)
(* A thread runs one probe at a time, and the probes of different threads  *)
(* read and write different keys of lock_start, lock_end and locks, so a   *)
(* handler is one step; a reporting pass reads the tables in one step.     *)
(* The histograms are shared by all threads: SpecOverlap splits the        *)
(* handlers at their histogram increment and lets the threads overlap.     *)
(* last, alone, trace, nevents and matched record the run; no handler      *)
(* reads them.                                                             *)
(***************************************************************************)
EXTENDS Integers, Sequences, FiniteSets, TLC

VARIABLES
    init_stacks,      \* BPF_HASH(init_stacks, u64, int): mtx -> stack id
    locks,            \* BPF_HASH(locks, thread_mutex_key_t, thread_mutex_val_t)
    lock_start,       \* BPF_HASH(lock_start, u32, mutex_timestamp_t)
    lock_end,         \* BPF_HASH(lock_end, mutex_lock_time_key_t, mutex_lock_time_val_t)
    mutex_wait_hist,  \* BPF_HISTOGRAM(mutex_wait_hist, u64): slot -> count
    mutex_lock_hist,  \* BPF_HISTOGRAM(mutex_lock_hist, u64): slot -> count
    clock,            \* bpf_ktime_get_ns(): the last value the clock returned
    report,           \* what the last pass of run()'s loop printed
    last,             \* the probe that fired last, with its arguments
    alone,            \* per thread: the tables its own probes alone produce
    trace,            \* the probes fired so far (recorded by SpecLife only)
    nevents,          \* number of probes fired so far
    proc,             \* the Python process: where it is, what it printed, its exit
    inflight,         \* per thread: the handler that has not yet returned (SpecOverlap)
    matched           \* handlers so far that got as far as their histogram increment

tables == <<init_stacks, locks, lock_start, lock_end, mutex_wait_hist, mutex_lock_hist>>

vars == <<init_stacks, locks, lock_start, lock_end, mutex_wait_hist, mutex_lock_hist,
          clock, report, last, alone, trace, nevents, proc, inflight, matched>>

\* what a probe that runs as one step leaves alone
others == <<trace, proc, inflight, matched>>

----------------------------------------------------------------------------
(* Bounds of the model *)

\* probes fired in a behaviour of Spec
MaxEvents == 4
\* probes fired in a behaviour of SpecLife
MaxLifeEvents == 4
\* probes fired in a behaviour of SpecHist
MaxHistEvents == 3

\* The threads of the traced process, as bpf_get_current_pid_tgid() names
\* them: the tgid in the upper 32 bits, the thread id in the lower 32.
Threads == [tgid : {7}, tid : {1, 5}]
\* pthread_mutex_t addresses (0x100, 0x200)
Mutexes == {256, 512}
\* ids stacks.get_stackid() returns
StackIds == {1, 2}
\* values PT_REGS_RC(ctx) takes at the return of pthread_mutex_lock
RetCodes == {0, 16}
\* nanoseconds the clock advances between two probes
Deltas == {1500, 50000}

----------------------------------------------------------------------------
(* BPF table operations *)

EmptyTable == << >>

\* table.lookup(&key) == 0
Missing(table, key) == key \notin DOMAIN table

\* table.update(&key, &val)
Update(table, key, val) ==
    [k \in DOMAIN table \cup {key} |-> IF k = key THEN val ELSE table[k]]

\* table.delete(&key)
Delete(table, key) == [k \in DOMAIN table \ {key} |-> table[k]]

\* table.lookup_or_init(&key, &zero)
lookup_or_init(table, key, zero) == IF key \in DOMAIN table THEN table[key] ELSE zero

\* hist.increment(slot)
increment(hist, slot) ==
    Update(hist, slot, IF slot \in DOMAIN hist THEN hist[slot] + 1 ELSE 1)

\* sum of the counts of a histogram
RECURSIVE SumOver(_, _)
SumOver(hist, slots) ==
    IF slots = {} THEN 0
    ELSE LET s == CHOOSE x \in slots : TRUE
         IN  hist[s] + SumOver(hist, slots \ {s})

HistTotal(hist) == SumOver(hist, DOMAIN hist)

\* the count of a histogram slot, 0 for a slot never incremented
CountAt(hist, slot) == IF slot \in DOMAIN hist THEN hist[slot] ELSE 0

\* floor(log2(v)), 0 for v = 0
RECURSIVE bpf_log2l(_)
bpf_log2l(v) == IF v <= 1 THEN 0 ELSE 1 + bpf_log2l(v \div 2)

----------------------------------------------------------------------------
(* The BPF program: each handler as a function of the tables *)

Tables ==
    [init_stacks |-> init_stacks, locks |-> locks, lock_start |-> lock_start,
     lock_end |-> lock_end, mutex_wait_hist |-> mutex_wait_hist,
     mutex_lock_hist |-> mutex_lock_hist]

EmptyTables ==
    [init_stacks |-> EmptyTable, locks |-> EmptyTable, lock_start |-> EmptyTable,
     lock_end |-> EmptyTable, mutex_wait_hist |-> EmptyTable,
     mutex_lock_hist |-> EmptyTable]

\* struct thread_mutex_val_t new_tm_val = {}
new_tm_val == [wait_time_ns |-> 0, lock_time_ns |-> 0, enter_count |-> 0]

\* u32 pid = bpf_get_current_pid_tgid(): the lower 32 bits, the thread id
current_pid_tgid_high(pid_tgid) == pid_tgid.tgid
current_pid(pid_tgid) == pid_tgid.tid

\* struct mutex_lock_time_key_t {tid, mtx}
mutex_lock_time_key(pid, mtx) == <<pid, mtx>>

\* struct thread_mutex_key_t {tid, mtx, lock_stack_id}
thread_mutex_key(pid, mtx, stack_id) == <<pid, mtx, stack_id>>

probe_mutex_lock_keep_first(st, pid_tgid, mtx, now) ==
    LET pid == current_pid(pid_tgid)
        val == [mtx |-> mtx, timestamp |-> now]
    IN  IF Missing(st.lock_start, pid)
        THEN [st EXCEPT !.lock_start = Update(@, pid, val)]
        ELSE st

probe_mutex_lock(st, pid_tgid, mtx, now) ==
    LET pid == current_pid(pid_tgid)
        val == [mtx |-> mtx, timestamp |-> now]
    IN  [st EXCEPT !.lock_start = Update(@, pid, val)]

\* lines 82-91: the acquisition is recorded only when pthread_mutex_lock returned 0
lock_end_always(table, pid, entry, stack_id, rc, now) ==
    Update(table, mutex_lock_time_key(pid, entry.mtx),
           [timestamp |-> now, stack_id |-> stack_id])

lock_end_on_return(table, pid, entry, stack_id, rc, now) ==
    IF rc = 0
    THEN Update(table, mutex_lock_time_key(pid, entry.mtx),
                [timestamp |-> now, stack_id |-> stack_id])
    ELSE table

\* lines 100-103
tm_val_no_enter(existing_tm_val, wait_time, rc) ==
    [existing_tm_val EXCEPT !.wait_time_ns = @ + wait_time]

\* lines 100-103 with an assignment in place of the += of line 100
tm_val_last_wait(existing_tm_val, wait_time, rc) ==
    [existing_tm_val EXCEPT !.wait_time_ns = wait_time,
                            !.enter_count = IF rc = 0 THEN @ + 1 ELSE @]

tm_val_on_return(existing_tm_val, wait_time, rc) ==
    [existing_tm_val EXCEPT !.wait_time_ns = @ + wait_time,
                            !.enter_count = IF rc = 0 THEN @ + 1 ELSE @]

\* line 105 and line 136: the slot of a duration in nanoseconds
log2_slot_ns(duration) == bpf_log2l(duration)

log2_slot(duration) == bpf_log2l(duration \div 1000)

\* line 108 and line 139
delete_forgotten(table, key) == table

delete_pending(table, key) == Delete(table, key)

\* lines 78-110: the handler once lock_start holds an entry for the thread
lock_return_entry(st, pid, entry, stack_id, rc, now) ==
    LET wait_time == now - entry.timestamp
        tm_key == thread_mutex_key(pid, entry.mtx, stack_id)
        existing_tm_val == lookup_or_init(st.locks, tm_key, new_tm_val)
        mtx_slot == log2_slot(wait_time)
    IN  [st EXCEPT
            !.lock_end = lock_end_on_return(@, pid, entry, stack_id, rc, now),
            !.locks = Update(@, tm_key, tm_val_on_return(existing_tm_val, wait_time, rc)),
            !.mutex_wait_hist = increment(@, mtx_slot),
            !.lock_start = delete_pending(@, pid)]

probe_mutex_lock_return_or_init(st, pid_tgid, stack_id, rc, now) ==
    LET pid == current_pid(pid_tgid)
        entry == lookup_or_init(st.lock_start, pid, [mtx |-> 0, timestamp |-> 0])
    IN  lock_return_entry(st, pid, entry, stack_id, rc, now)

probe_mutex_lock_return(st, pid_tgid, stack_id, rc, now) ==
    LET pid == current_pid(pid_tgid)
    IN  IF Missing(st.lock_start, pid)
        THEN st     \* Missed the entry
        ELSE lock_return_entry(st, pid, st.lock_start[pid], stack_id, rc, now)

\* line 134
tm_val_hold_as_wait(existing_tm_val, hold_time) ==
    [existing_tm_val EXCEPT !.wait_time_ns = @ + hold_time]

tm_val_on_unlock(existing_tm_val, hold_time) ==
    [existing_tm_val EXCEPT !.lock_time_ns = @ + hold_time]

\* lines 125-141 with line 139 dropping every pending hold of the thread
unlock_entry_release_all(st, pid, mtx, lock_val, now) ==
    LET hold_time == now - lock_val.timestamp
        tm_key == thread_mutex_key(pid, mtx, lock_val.stack_id)
        slot == log2_slot(hold_time)
    IN  IF Missing(st.locks, tm_key)
        THEN st
        ELSE [st EXCEPT
                !.locks = Update(@, tm_key, tm_val_on_unlock(st.locks[tm_key], hold_time)),
                !.mutex_lock_hist = increment(@, slot),
                !.lock_end = [key \in {k \in DOMAIN @ : k[1] # pid} |-> @[key]]]

\* lines 125-141: the handler once lock_end holds an entry for (thread, mutex)
unlock_entry(st, pid, mtx, lock_val, now) ==
    LET hold_time == now - lock_val.timestamp
        tm_key == thread_mutex_key(pid, mtx, lock_val.stack_id)
        slot == log2_slot(hold_time)
    IN  IF Missing(st.locks, tm_key)
        THEN st     \* Couldn't find this record
        ELSE [st EXCEPT
                !.locks = Update(@, tm_key, tm_val_on_unlock(st.locks[tm_key], hold_time)),
                !.mutex_lock_hist = increment(@, slot),
                !.lock_end = delete_pending(@, mutex_lock_time_key(pid, mtx))]

probe_mutex_unlock_or_init(st, pid_tgid, mtx, now) ==
    LET pid == current_pid(pid_tgid)
        lock_key == mutex_lock_time_key(pid, mtx)
        zero == [timestamp |-> 0, stack_id |-> 0]
        lock_val == lookup_or_init(st.lock_end, lock_key, zero)
        found == [st EXCEPT !.lock_end = Update(@, lock_key, lock_val)]
    IN  unlock_entry(found, pid, mtx, lock_val, now)

probe_mutex_unlock(st, pid_tgid, mtx, now) ==
    LET pid == current_pid(pid_tgid)
        lock_key == mutex_lock_time_key(pid, mtx)
    IN  IF Missing(st.lock_end, lock_key)
        THEN st     \* Missed the lock of this mutex
        ELSE unlock_entry(st, pid, mtx, st.lock_end[lock_key], now)

\* line 148 as an insert that keeps the record of an address already present
probe_mutex_init_first(st, mutex_addr, stack_id) ==
    IF Missing(st.init_stacks, mutex_addr)
    THEN [st EXCEPT !.init_stacks = Update(@, mutex_addr, stack_id)]
    ELSE st

probe_mutex_init(st, mutex_addr, stack_id) ==
    [st EXCEPT !.init_stacks = Update(@, mutex_addr, stack_id)]

----------------------------------------------------------------------------
(* The probes attach() installs, fired by the threads of the traced process *)

NoEntry == [absent |-> TRUE]
NoThread == [tgid |-> 0, tid |-> 0]

Tids == {t.tid : t \in Threads}

\* the tables of one thread's own probes, as the full record a handler takes
OwnTables(own) ==
    [EmptyTables EXCEPT !.locks = own.locks, !.lock_start = own.lock_start,
                        !.lock_end = own.lock_end]

Own(st) == [locks |-> st.locks, lock_start |-> st.lock_start, lock_end |-> st.lock_end]

SetTables(st) ==
    /\ init_stacks' = st.init_stacks
    /\ locks' = st.locks
    /\ lock_start' = st.lock_start
    /\ lock_end' = st.lock_end
    /\ mutex_wait_hist' = st.mutex_wait_hist
    /\ mutex_lock_hist' = st.mutex_lock_hist

PendingWaitOf(t) == IF t.tid \in DOMAIN lock_start THEN lock_start[t.tid] ELSE NoEntry

PendingHoldOf(t, m) ==
    IF <<t.tid, m>> \in DOMAIN lock_end THEN lock_end[<<t.tid, m>>] ELSE NoEntry

InitRecordOf(m) ==
    IF m \in DOMAIN init_stacks THEN [stack_id |-> init_stacks[m]] ELSE NoEntry

\* uprobe pthread_mutex_init -> probe_mutex_init
OnMutexInit(m, s) ==
    /\ SetTables(probe_mutex_init(Tables, m, s))
    /\ last' = [fn |-> "probe_mutex_init", thread |-> NoThread, mtx |-> m,
                stack_id |-> s, rc |-> 0, entry |-> InitRecordOf(m)]
    /\ nevents' = nevents + 1
    /\ UNCHANGED <<clock, report, alone>>

\* uprobe pthread_mutex_lock -> probe_mutex_lock
OnMutexLock(t, m, d) ==
    LET now == clock + d
    IN  /\ SetTables(probe_mutex_lock(Tables, t, m, now))
        /\ alone' = [alone EXCEPT ![t.tid] =
                        Own(probe_mutex_lock(OwnTables(@), t, m, now))]
        /\ clock' = now
        /\ last' = [fn |-> "probe_mutex_lock", thread |-> t, mtx |-> m,
                    stack_id |-> 0, rc |-> 0, entry |-> PendingWaitOf(t)]
        /\ nevents' = nevents + 1
        /\ UNCHANGED report

\* uretprobe pthread_mutex_lock -> probe_mutex_lock_return
OnMutexLockReturn(t, s, rc, d) ==
    LET now == clock + d
    IN  /\ SetTables(probe_mutex_lock_return(Tables, t, s, rc, now))
        /\ alone' = [alone EXCEPT ![t.tid] =
                        Own(probe_mutex_lock_return(OwnTables(@), t, s, rc, now))]
        /\ clock' = now
        /\ last' = [fn |-> "probe_mutex_lock_return", thread |-> t, mtx |-> 0,
                    stack_id |-> s, rc |-> rc, entry |-> PendingWaitOf(t)]
        /\ nevents' = nevents + 1
        /\ UNCHANGED report

\* uprobe pthread_mutex_unlock -> probe_mutex_unlock
OnMutexUnlock(t, m, d) ==
    LET now == clock + d
    IN  /\ SetTables(probe_mutex_unlock(Tables, t, m, now))
        /\ alone' = [alone EXCEPT ![t.tid] =
                        Own(probe_mutex_unlock(OwnTables(@), t, m, now))]
        /\ clock' = now
        /\ last' = [fn |-> "probe_mutex_unlock", thread |-> t, mtx |-> m,
                    stack_id |-> 0, rc |-> 0, entry |-> PendingHoldOf(t, m)]
        /\ nevents' = nevents + 1
        /\ UNCHANGED report

\* sys.argv[0], and the exit_status of a process that has not exited
ProgName == <<"lockstat-solution.py">>
StillRunning == -1

\* the process inside the while loop of run(), probes attached
Looping == [pc |-> "loop", argv |-> <<ProgName, <<"4", "2">>>>, stdout |-> << >>,
            exit_status |-> StillRunning, attached |-> TRUE, pid |-> 42]

\* no handler of the thread is between its two steps
NoCall == [fn |-> "none"]

\* waits, holds: handlers that reached line 106, line 137; stale_waits,
\* stale_holds: those of them whose bucket another thread incremented
\* between their two steps
NoneMatched == [waits |-> 0, holds |-> 0, stale_waits |-> 0, stale_holds |-> 0]

NoProbe == [fn |-> "none", thread |-> NoThread, mtx |-> 0, stack_id |-> 0, rc |-> 0,
            entry |-> NoEntry]

\* the state once BPF(text=text) has loaded the program and attach() returned
Init ==
    /\ init_stacks = EmptyTable
    /\ locks = EmptyTable
    /\ lock_start = EmptyTable
    /\ lock_end = EmptyTable
    /\ mutex_wait_hist = EmptyTable
    /\ mutex_lock_hist = EmptyTable
    /\ clock = 0
    /\ report = << >>
    /\ last = NoProbe
    /\ alone = [tid \in Tids |-> Own(EmptyTables)]
    /\ trace = << >>
    /\ nevents = 0
    /\ proc = Looping
    /\ inflight = [tid \in Tids |-> NoCall]
    /\ matched = NoneMatched

\* what SpecLife records of a probe: its arguments and the clock it read
Event(probe, now) ==
    [fn |-> probe.fn, thread |-> probe.thread, mtx |-> probe.mtx,
     stack_id |-> probe.stack_id, rc |-> probe.rc, now |-> now]

Next ==
    \/ \E m \in Mutexes, s \in StackIds :
        nevents < MaxEvents /\ OnMutexInit(m, s) /\ UNCHANGED others
    \/ \E t \in Threads, m \in Mutexes, d \in Deltas :
        nevents < MaxEvents /\ OnMutexLock(t, m, d) /\ UNCHANGED others
    \/ \E t \in Threads, s \in StackIds, rc \in RetCodes, d \in Deltas :
        nevents < MaxEvents /\ OnMutexLockReturn(t, s, rc, d) /\ UNCHANGED others
    \/ \E t \in Threads, m \in Mutexes, d \in Deltas :
        nevents < MaxEvents /\ OnMutexUnlock(t, m, d) /\ UNCHANGED others

Spec == Init /\ [][Next]_vars

----------------------------------------------------------------------------
(* SpecLife: one thread, every probe recorded in trace *)

LifeThreads == {t \in Threads : t.tid = 1}
\* the call site of pthread_mutex_init (S1) and of pthread_mutex_lock (S2)
LifeInitStacks == {1}
LifeLockStacks == {2}
LifeDeltas == {0, 50000, 100000}

Recorded ==
    /\ trace' = Append(trace, Event(last', clock'))
    /\ UNCHANGED <<proc, inflight, matched>>

NextLife ==
    \/ \E m \in Mutexes, s \in LifeInitStacks :
        nevents < MaxLifeEvents /\ OnMutexInit(m, s) /\ Recorded
    \/ \E t \in LifeThreads, m \in Mutexes, d \in LifeDeltas :
        nevents < MaxLifeEvents /\ OnMutexLock(t, m, d) /\ Recorded
    \/ \E t \in LifeThreads, s \in LifeLockStacks, rc \in RetCodes, d \in LifeDeltas :
        nevents < MaxLifeEvents /\ OnMutexLockReturn(t, s, rc, d) /\ Recorded
    \/ \E t \in LifeThreads, m \in Mutexes, d \in LifeDeltas :
        nevents < MaxLifeEvents /\ OnMutexUnlock(t, m, d) /\ Recorded

SpecLife == Init /\ [][NextLife]_vars

----------------------------------------------------------------------------
(* SpecHist: one thread, one mutex, one call site, durations around the    *)
(* boundaries of the histogram slots                                       *)

HistMutexes == {256}
HistStacks == {2}
HistDeltas == {0, 999, 1000, 1999, 2000, 1023000, 1023999, 1024000}

NextHist ==
    \/ \E m \in HistMutexes, s \in LifeInitStacks :
        nevents < MaxHistEvents /\ OnMutexInit(m, s) /\ UNCHANGED others
    \/ \E t \in LifeThreads, m \in HistMutexes, d \in HistDeltas :
        nevents < MaxHistEvents /\ OnMutexLock(t, m, d) /\ UNCHANGED others
    \/ \E t \in LifeThreads, s \in HistStacks, rc \in RetCodes, d \in HistDeltas :
        nevents < MaxHistEvents /\ OnMutexLockReturn(t, s, rc, d) /\ UNCHANGED others
    \/ \E t \in LifeThreads, m \in HistMutexes, d \in HistDeltas :
        nevents < MaxHistEvents /\ OnMutexUnlock(t, m, d) /\ UNCHANGED others

SpecHist == Init /\ [][NextHist]_vars

----------------------------------------------------------------------------
(* SpecHold: one thread, long enough for the thread to acquire both        *)
(* mutexes and release them                                                *)

\* probes fired in a behaviour of SpecHold
MaxHoldEvents == 5

HoldThreads == {t \in Threads : t.tid = 5}
HoldStacks == {1, 2}
HoldDeltas == {1500, 50000}

NextHold ==
    \/ \E m \in Mutexes, s \in HoldStacks :
        nevents < MaxHoldEvents /\ OnMutexInit(m, s) /\ UNCHANGED others
    \/ \E t \in HoldThreads, m \in Mutexes, d \in HoldDeltas :
        nevents < MaxHoldEvents /\ OnMutexLock(t, m, d) /\ UNCHANGED others
    \/ \E t \in HoldThreads, s \in HoldStacks, rc \in RetCodes, d \in HoldDeltas :
        nevents < MaxHoldEvents /\ OnMutexLockReturn(t, s, rc, d) /\ UNCHANGED others
    \/ \E t \in HoldThreads, m \in Mutexes, d \in HoldDeltas :
        nevents < MaxHoldEvents /\ OnMutexUnlock(t, m, d) /\ UNCHANGED others

SpecHold == Init /\ [][NextHold]_vars

----------------------------------------------------------------------------
(* run(): one pass of the reporting loop.  A row of the report holds the key *)
(* and value printed; the text formatting of the numbers is not modelled.  *)

\* the orders in which table.items() can enumerate a set of keys
Orders(keys) ==
    {o \in [1..Cardinality(keys) -> keys] :
        \A i, j \in 1..Cardinality(keys) : o[i] = o[j] => i = j}

\* table.items() enumerated in the order given: a list of (k, v)
items(table, order) == [i \in 1..Len(order) |-> [k |-> order[i], v |-> table[order[i]]]]

\* grouper = lambda (k, v): k.tid
grouper(item) == item.k[1]

\* key=lambda (k, v): -v.wait_time_ns
wait_key_ascending(item) == item.v.wait_time_ns
wait_key(item) == -item.v.wait_time_ns

\* Python's sorted() on a list decorated with its keys: stable, ascending
insort(list, x) ==
    LET n == Cardinality({i \in 1..Len(list) : list[i].key <= x.key})
    IN  SubSeq(list, 1, n) \o <<x>> \o SubSeq(list, n + 1, Len(list))

RECURSIVE sorted_decorated(_)
sorted_decorated(list) ==
    IF list = << >> THEN << >>
    ELSE insort(sorted_decorated(SubSeq(list, 1, Len(list) - 1)), list[Len(list)])

\* sorted(locks.items(), key=grouper)
sorted_by_grouper(list) ==
    LET decorated == [i \in 1..Len(list) |-> [key |-> grouper(list[i]), item |-> list[i]]]
        result == sorted_decorated(decorated)
    IN  [i \in 1..Len(result) |-> result[i].item]

\* sorted(items, key=lambda (k, v): -v.wait_time_ns)
sorted_by_wait(list) ==
    LET decorated == [i \in 1..Len(list) |-> [key |-> wait_key(list[i]), item |-> list[i]]]
        result == sorted_decorated(decorated)
    IN  [i \in 1..Len(result) |-> result[i].item]

\* itertools.groupby(list, grouper): one group per run of equal keys
RECURSIVE groupby(_)
groupby(list) ==
    IF list = << >> THEN << >>
    ELSE LET tid == grouper(list[1])
             run == CHOOSE n \in 1..Len(list) :
                        /\ \A i \in 1..n : grouper(list[i]) = tid
                        /\ n < Len(list) => grouper(list[n + 1]) # tid
         IN  <<[tid |-> tid, items |-> SubSeq(list, 1, run)]>>
                \o groupby(SubSeq(list, run + 1, Len(list)))

\* lines 178-186: mutex_ids[k.value] = "#%d" % next_mutex_id, in enumeration order
mutex_ids(init_items) ==
    [m \in {init_items[i].k : i \in 1..Len(init_items)} |->
        <<"#", CHOOSE i \in 1..Len(init_items) : init_items[i].k = m>>]

\* line 193 without the lookup in mutex_ids: every row shows the decoded address
mutex_descr_decoded(ids, mtx) == <<"decode_addr", mtx>>

\* line 193
mutex_descr(ids, mtx) == IF mtx \in DOMAIN ids THEN ids[mtx] ELSE <<"decode_addr", mtx>>

\* lines 178-199: what one pass prints
run_pass(init_items, lock_items, wait_hist, lock_hist) ==
    LET ids == mutex_ids(init_items)
        locks_by_thread == groupby(sorted_by_grouper(lock_items))
        section(g) ==
            LET rows == sorted_by_wait(g.items)
            IN  [tid |-> g.tid,
                 rows |-> [i \in 1..Len(rows) |->
                            [mutex |-> mutex_descr(ids, rows[i].k[2]),
                             k |-> rows[i].k, v |-> rows[i].v]]]
    IN  [inits |-> [i \in 1..Len(init_items) |->
                      [mtx |-> init_items[i].k, mutex_id |-> ids[init_items[i].k],
                       stack_id |-> init_items[i].v]],
         threads |-> [i \in 1..Len(locks_by_thread) |-> section(locks_by_thread[i])],
         wait_hist |-> wait_hist,
         lock_hist |-> lock_hist]

\* a pass that clears the histograms after printing them
ReportPassClearing ==
    /\ \E init_order \in Orders(DOMAIN init_stacks), lock_order \in Orders(DOMAIN locks) :
          report' = run_pass(items(init_stacks, init_order), items(locks, lock_order),
                             mutex_wait_hist, mutex_lock_hist)
    /\ last' = [NoProbe EXCEPT !.fn = "run"]
    /\ mutex_wait_hist' = EmptyTable
    /\ mutex_lock_hist' = EmptyTable
    /\ UNCHANGED <<init_stacks, locks, lock_start, lock_end, clock, alone, nevents, others>>

\* one iteration of the while loop of run()
ReportPass ==
    /\ \E init_order \in Orders(DOMAIN init_stacks), lock_order \in Orders(DOMAIN locks) :
          report' = run_pass(items(init_stacks, init_order), items(locks, lock_order),
                             mutex_wait_hist, mutex_lock_hist)
    /\ last' = [NoProbe EXCEPT !.fn = "run"]
    /\ UNCHANGED <<tables, clock, alone, nevents, others>>

----------------------------------------------------------------------------
(* SpecReport: reporting passes over tables that hold the rows of earlier   *)
(* failed lock attempts, with further probes in between                    *)

\* probes fired in a behaviour of SpecReport
MaxReportEvents == 1

ReportKeys == {<<5, 256, 1>>, <<5, 256, 2>>, <<5, 512, 1>>}
ReportWaits == {100, 200, 300}
ReportOtherRows ==
    {EmptyTable,
     <<1, 256, 1>> :> [wait_time_ns |-> 100, lock_time_ns |-> 0, enter_count |-> 0]}
ReportInitStacks == {EmptyTable, 256 :> 1, (256 :> 1) @@ (512 :> 1)}
ReportMutexes == {256}
ReportStacks == {1}
ReportDeltas == {100}

RECURSIVE SumWaits(_, _)
SumWaits(table, keys) ==
    IF keys = {} THEN 0
    ELSE LET k == CHOOSE x \in keys : TRUE
         IN  table[k].wait_time_ns + SumWaits(table, keys \ {k})

\* each row is one failed attempt of 100, 200 or 300 ns, made back to back
InitReport ==
    \E keys \in SUBSET ReportKeys, w \in [ReportKeys -> ReportWaits],
       other \in ReportOtherRows, inits \in ReportInitStacks :
        LET rows == other @@ [k \in keys |->
                        [wait_time_ns |-> w[k], lock_time_ns |-> 0, enter_count |-> 0]]
        IN  /\ init_stacks = inits
            /\ locks = rows
            /\ lock_start = EmptyTable
            /\ lock_end = EmptyTable
            /\ mutex_wait_hist =
                  IF DOMAIN rows = {} THEN EmptyTable
                  ELSE 0 :> Cardinality(DOMAIN rows)
            /\ mutex_lock_hist = EmptyTable
            /\ clock = SumWaits(rows, DOMAIN rows)
            /\ report = << >>
            /\ last = NoProbe
            /\ alone = [tid \in Tids |->
                          [locks |-> [k \in {x \in DOMAIN rows : x[1] = tid} |-> rows[k]],
                           lock_start |-> EmptyTable, lock_end |-> EmptyTable]]
            /\ trace = << >>
            /\ nevents = 0
            /\ proc = Looping
            /\ inflight = [tid \in Tids |-> NoCall]
            /\ matched = NoneMatched

NextReport ==
    \/ ReportPass
    \/ \E m \in ReportMutexes, s \in ReportStacks :
        nevents < MaxReportEvents /\ OnMutexInit(m, s) /\ UNCHANGED others
    \/ \E t \in Threads, m \in ReportMutexes, d \in ReportDeltas :
        nevents < MaxReportEvents /\ OnMutexLock(t, m, d) /\ UNCHANGED others
    \/ \E t \in Threads, s \in ReportStacks, rc \in RetCodes, d \in ReportDeltas :
        nevents < MaxReportEvents /\ OnMutexLockReturn(t, s, rc, d) /\ UNCHANGED others
    \/ \E t \in Threads, m \in ReportMutexes, d \in ReportDeltas :
        nevents < MaxReportEvents /\ OnMutexUnlock(t, m, d) /\ UNCHANGED others

SpecReport == InitReport /\ [][NextReport]_vars

----------------------------------------------------------------------------
(* SpecOverlap: the handlers of two threads overlap in time.  The handlers  *)
(* of lock return and unlock run in two steps, split before their          *)
(* histogram increment; the first step also notes the count the bucket     *)
(* holds at that moment.                                                   *)

\* probes fired in a behaviour of SpecOverlap
MaxOverlapEvents == 7

OverlapDeltas == {1500}

\* lines 106 and 137 with a load of the bucket, an add and a store of the
\* result, the load done in the first step of the handler
hist_add_stale(hist, slot, seen) == Update(hist, slot, seen + 1)

\* lines 106 and 137: increment adds one to the count the bucket holds when
\* it executes, whatever it held earlier in the handler
hist_add(hist, slot, seen) == increment(hist, slot)

\* lines 78-103
lock_return_account(st, pid, entry, stack_id, rc, now) ==
    LET wait_time == now - entry.timestamp
        tm_key == thread_mutex_key(pid, entry.mtx, stack_id)
        existing_tm_val == lookup_or_init(st.locks, tm_key, new_tm_val)
    IN  [st EXCEPT
            !.lock_end = lock_end_on_return(@, pid, entry, stack_id, rc, now),
            !.locks = Update(@, tm_key, tm_val_on_return(existing_tm_val, wait_time, rc))]

\* lines 106-110
lock_return_finish(st, pid, slot, seen) ==
    [st EXCEPT !.mutex_wait_hist = hist_add(@, slot, seen),
               !.lock_start = delete_pending(@, pid)]

\* lines 125-134, the row present
unlock_account(st, pid, mtx, lock_val, now) ==
    LET hold_time == now - lock_val.timestamp
        tm_key == thread_mutex_key(pid, mtx, lock_val.stack_id)
    IN  [st EXCEPT
            !.locks = Update(@, tm_key, tm_val_on_unlock(st.locks[tm_key], hold_time))]

\* lines 137-141
unlock_finish(st, pid, mtx, slot, seen) ==
    [st EXCEPT !.mutex_lock_hist = hist_add(@, slot, seen),
               !.lock_end = delete_pending(@, mutex_lock_time_key(pid, mtx))]

\* uprobe pthread_mutex_lock, the thread in no other handler
OverlapLock(t, m, d) ==
    /\ inflight[t.tid] = NoCall
    /\ OnMutexLock(t, m, d)
    /\ UNCHANGED others

\* uretprobe pthread_mutex_lock: lines 71-105
ReturnBegin(t, s, rc, d) ==
    LET now == clock + d
        pid == current_pid(t)
        found == ~Missing(lock_start, pid)
        entry == lock_start[pid]
        slot == log2_slot(now - entry.timestamp)
    IN  /\ inflight[pid] = NoCall
        /\ SetTables(IF found THEN lock_return_account(Tables, pid, entry, s, rc, now)
                     ELSE Tables)
        /\ alone' = [alone EXCEPT ![pid] =
                        IF found
                        THEN Own(lock_return_account(OwnTables(@), pid, entry, s, rc, now))
                        ELSE @]
        /\ inflight' = [inflight EXCEPT ![pid] =
                        IF found
                        THEN [fn |-> "probe_mutex_lock_return", mtx |-> entry.mtx,
                              slot |-> slot, seen |-> CountAt(mutex_wait_hist, slot)]
                        ELSE NoCall]
        /\ matched' = [matched EXCEPT !.waits = IF found THEN @ + 1 ELSE @]
        /\ clock' = now
        /\ last' = [fn |-> "probe_mutex_lock_return", thread |-> t, mtx |-> 0,
                    stack_id |-> s, rc |-> rc, entry |-> PendingWaitOf(t)]
        /\ nevents' = nevents + 1
        /\ UNCHANGED <<report, trace, proc>>

\* uretprobe pthread_mutex_lock: lines 106-110
ReturnFinish(t) ==
    LET pid == current_pid(t)
        call == inflight[pid]
    IN  /\ call.fn = "probe_mutex_lock_return"
        /\ SetTables(lock_return_finish(Tables, pid, call.slot, call.seen))
        /\ alone' = [alone EXCEPT ![pid] =
                        Own(lock_return_finish(OwnTables(@), pid, call.slot, call.seen))]
        /\ inflight' = [inflight EXCEPT ![pid] = NoCall]
        /\ matched' = [matched EXCEPT !.stale_waits =
                        IF CountAt(mutex_wait_hist, call.slot) # call.seen
                        THEN @ + 1 ELSE @]
        /\ UNCHANGED <<clock, last, nevents, report, trace, proc>>

\* uprobe pthread_mutex_unlock: lines 115-136
UnlockBegin(t, m, d) ==
    LET now == clock + d
        pid == current_pid(t)
        lock_key == mutex_lock_time_key(pid, m)
        lock_val == lock_end[lock_key]
        found == /\ ~Missing(lock_end, lock_key)
                 /\ ~Missing(locks, thread_mutex_key(pid, m, lock_val.stack_id))
        slot == log2_slot(now - lock_val.timestamp)
    IN  /\ inflight[pid] = NoCall
        /\ SetTables(IF found THEN unlock_account(Tables, pid, m, lock_val, now)
                     ELSE Tables)
        /\ alone' = [alone EXCEPT ![pid] =
                        IF found
                        THEN Own(unlock_account(OwnTables(@), pid, m, lock_val, now))
                        ELSE @]
        /\ inflight' = [inflight EXCEPT ![pid] =
                        IF found
                        THEN [fn |-> "probe_mutex_unlock", mtx |-> m,
                              slot |-> slot, seen |-> CountAt(mutex_lock_hist, slot)]
                        ELSE NoCall]
        /\ matched' = [matched EXCEPT !.holds = IF found THEN @ + 1 ELSE @]
        /\ clock' = now
        /\ last' = [fn |-> "probe_mutex_unlock", thread |-> t, mtx |-> m,
                    stack_id |-> 0, rc |-> 0, entry |-> PendingHoldOf(t, m)]
        /\ nevents' = nevents + 1
        /\ UNCHANGED <<report, trace, proc>>

\* uprobe pthread_mutex_unlock: lines 137-141
UnlockFinish(t) ==
    LET pid == current_pid(t)
        call == inflight[pid]
    IN  /\ call.fn = "probe_mutex_unlock"
        /\ SetTables(unlock_finish(Tables, pid, call.mtx, call.slot, call.seen))
        /\ alone' = [alone EXCEPT ![pid] =
                        Own(unlock_finish(OwnTables(@), pid, call.mtx, call.slot, call.seen))]
        /\ inflight' = [inflight EXCEPT ![pid] = NoCall]
        /\ matched' = [matched EXCEPT !.stale_holds =
                        IF CountAt(mutex_lock_hist, call.slot) # call.seen
                        THEN @ + 1 ELSE @]
        /\ UNCHANGED <<clock, last, nevents, report, trace, proc>>

NextOverlap ==
    \/ \E t \in Threads, m \in HistMutexes, d \in OverlapDeltas :
        nevents < MaxOverlapEvents /\ OverlapLock(t, m, d)
    \/ \E t \in Threads, s \in HistStacks, rc \in RetCodes, d \in OverlapDeltas :
        nevents < MaxOverlapEvents /\ ReturnBegin(t, s, rc, d)
    \/ \E t \in Threads : ReturnFinish(t)
    \/ \E t \in Threads, m \in HistMutexes, d \in OverlapDeltas :
        nevents < MaxOverlapEvents /\ UnlockBegin(t, m, d)
    \/ \E t \in Threads : UnlockFinish(t)

SpecOverlap == Init /\ [][NextOverlap]_vars

----------------------------------------------------------------------------
(* SpecMain: the script from its start: the __main__ block, then run()      *)

\* probes fired in a behaviour of SpecMain
MaxMainEvents == 3

\* sys.argv: no argument, a process id, or a word that is not a number
MainArgv == {<<ProgName>>, <<ProgName, <<"4", "2">>>>, <<ProgName, <<"x">>>>}

DigitChars == <<"0", "1", "2", "3", "4", "5", "6", "7", "8", "9">>

IsDigit(c) == \E i \in 1..Len(DigitChars) : DigitChars[i] = c

DigitValue(c) == (CHOOSE i \in 1..Len(DigitChars) : DigitChars[i] = c) - 1

\* line 205: int() of a word that is not made of decimal digits raises
\* ValueError
ValueError(word) == Len(word) = 0 \/ \E i \in 1..Len(word) : ~IsDigit(word[i])

\* line 205, int(sys.argv[1]) of a word of decimal digits
RECURSIVE int(_)
int(word) ==
    IF Len(word) = 1 THEN DigitValue(word[1])
    ELSE 10 * int(SubSeq(word, 1, Len(word) - 1)) + DigitValue(word[Len(word)])

\* the interpreter has started the script; no BPF program is loaded
InitMain ==
    /\ init_stacks = EmptyTable
    /\ locks = EmptyTable
    /\ lock_start = EmptyTable
    /\ lock_end = EmptyTable
    /\ mutex_wait_hist = EmptyTable
    /\ mutex_lock_hist = EmptyTable
    /\ clock = 0
    /\ report = << >>
    /\ last = NoProbe
    /\ alone = [tid \in Tids |-> Own(EmptyTables)]
    /\ trace = << >>
    /\ nevents = 0
    /\ \E argv \in MainArgv :
          proc = [pc |-> "main", argv |-> argv, stdout |-> << >>,
                  exit_status |-> StillRunning, attached |-> FALSE, pid |-> 0]
    /\ inflight = [tid \in Tids |-> NoCall]
    /\ matched = NoneMatched

\* lines 202-203: print the usage line; the script ends there, and an
\* interpreter that reaches the end of the script exits with status 0
MainUsage ==
    /\ proc.pc = "main"
    /\ Len(proc.argv) < 2
    /\ proc' = [proc EXCEPT !.pc = "exited",
                            !.stdout = Append(@, <<"USAGE:", proc.argv[1], "pid">>),
                            !.exit_status = 0]
    /\ UNCHANGED <<tables, clock, report, last, alone, trace, nevents, inflight, matched>>

\* line 205: int() raises ValueError, nothing catches it: traceback, status 1
MainValueError ==
    /\ proc.pc = "main"
    /\ Len(proc.argv) >= 2
    /\ ValueError(proc.argv[2])
    /\ proc' = [proc EXCEPT !.pc = "exited", !.exit_status = 1]
    /\ UNCHANGED <<tables, clock, report, last, alone, trace, nevents, inflight, matched>>

\* lines 205, 167-174: run(pid) loads the program, attaches the probes and
\* enters the loop
MainRun ==
    /\ proc.pc = "main"
    /\ Len(proc.argv) >= 2
    /\ ~ValueError(proc.argv[2])
    /\ proc' = [proc EXCEPT !.pc = "loop", !.attached = TRUE, !.pid = int(proc.argv[2])]
    /\ UNCHANGED <<tables, clock, report, last, alone, trace, nevents, inflight, matched>>

NextMain ==
    \/ MainUsage
    \/ MainValueError
    \/ MainRun
    \/ proc.pc = "loop" /\ ReportPass
    \/ \E m \in HistMutexes, s \in HistStacks :
        proc.attached /\ nevents < MaxMainEvents /\ OnMutexInit(m, s) /\ UNCHANGED others
    \/ \E t \in LifeThreads, m \in HistMutexes, d \in ReportDeltas :
        proc.attached /\ nevents < MaxMainEvents /\ OnMutexLock(t, m, d)
            /\ UNCHANGED others
    \/ \E t \in LifeThreads, s \in HistStacks, rc \in RetCodes, d \in ReportDeltas :
        proc.attached /\ nevents < MaxMainEvents /\ OnMutexLockReturn(t, s, rc, d)
            /\ UNCHANGED others
    \/ \E t \in LifeThreads, m \in HistMutexes, d \in ReportDeltas :
        proc.attached /\ nevents < MaxMainEvents /\ OnMutexUnlock(t, m, d)
            /\ UNCHANGED others

SpecMain == InitMain /\ [][NextMain]_vars

----------------------------------------------------------------------------
(* The claims *)

\* the step is one firing of probe fn
Fired(fn) == nevents' = nevents + 1 /\ last'.fn = fn

\* the statistics of a key, all zero when the table has no row for it
RowOf(table, key) ==
    IF key \in DOMAIN table
    THEN table[key]
    ELSE [wait_time_ns |-> 0, lock_time_ns |-> 0, enter_count |-> 0]

\* C1: a thread's pending wait is (l, T0) from its probe_mutex_lock(l) at T0
\* until its next probe_mutex_lock or probe_mutex_lock_return, whatever other
\* threads do; a probe_mutex_lock_return of that thread at T1 with stack s and
\* return value 0 then leaves the row (t, l, s) with wait_time_ns grown by
\* exactly T1 - T0 and enter_count grown by exactly 1, from all-zero values
\* when the row did not exist.
C1_SuccessfulWaitAccounted ==
    [][\A t \in Threads :
        /\ (Fired("probe_mutex_lock") /\ last'.thread = t)
              => PendingWaitOf(t)' = [mtx |-> last'.mtx, timestamp |-> clock']
        /\ (PendingWaitOf(t)' # PendingWaitOf(t))
              => /\ last'.thread = t
                 /\ last'.fn \in {"probe_mutex_lock", "probe_mutex_lock_return"}
        /\ (/\ Fired("probe_mutex_lock_return")
            /\ last'.thread = t
            /\ last'.rc = 0
            /\ PendingWaitOf(t) # NoEntry)
              => LET e == PendingWaitOf(t)
                     key == <<t.tid, e.mtx, last'.stack_id>>
                     old == RowOf(locks, key)
                 IN  /\ key \in DOMAIN locks'
                     /\ locks'[key].wait_time_ns
                            = old.wait_time_ns + (clock' - e.timestamp)
                     /\ locks'[key].enter_count = old.enter_count + 1
                     /\ clock' >= e.timestamp
       ]_vars

\* C1 witness: a successful return has just been matched onto a row that
\* existed before: the row counts two entries and both waits (1500 + 50000).
C1_Witness ==
    /\ last.fn = "probe_mutex_lock_return"
    /\ last.rc = 0
    /\ last.entry # NoEntry
    /\ LET key == <<last.thread.tid, last.entry.mtx, last.stack_id>>
       IN  /\ key \in DOMAIN locks
           /\ locks[key].enter_count = 2
           /\ locks[key].wait_time_ns = 51500

\* C2: a probe_mutex_lock_return of thread t at T1 with a non-zero return
\* value that finds the pending wait (l, T0) adds T1 - T0 to wait_time_ns of
\* the row (t, l, s) and one count to the wait histogram, leaves enter_count
\* of that row as it was, and leaves lock_end exactly as it was.
C2_FailedWaitAccounted ==
    [][\A t \in Threads :
        (/\ Fired("probe_mutex_lock_return")
         /\ last'.thread = t
         /\ last'.rc # 0
         /\ PendingWaitOf(t) # NoEntry)
           => LET e == PendingWaitOf(t)
                  key == <<t.tid, e.mtx, last'.stack_id>>
                  old == RowOf(locks, key)
              IN  /\ key \in DOMAIN locks'
                  /\ locks'[key].wait_time_ns
                         = old.wait_time_ns + (clock' - e.timestamp)
                  /\ locks'[key].enter_count = old.enter_count
                  /\ HistTotal(mutex_wait_hist') = HistTotal(mutex_wait_hist) + 1
                  /\ lock_end' = lock_end
       ]_vars

\* C2 witness: a failed return has just been matched while the thread held a
\* pending hold on the same mutex, acquired earlier.
C2_Witness ==
    /\ last.fn = "probe_mutex_lock_return"
    /\ last.rc # 0
    /\ last.entry # NoEntry
    /\ PendingHoldOf(last.thread, last.entry.mtx) # NoEntry
    /\ <<last.thread.tid, last.entry.mtx, last.stack_id>> \in DOMAIN locks

\* C3: a successful matched probe_mutex_lock_return of t on l at T1 with stack
\* s leaves the pending hold (t, l) = (T1, s); it stays so until the next
\* successful return of t on l or the next probe_mutex_unlock(l) of t; and a
\* probe_mutex_unlock(l) of t at T2 that finds it adds exactly T2 - T1 to
\* lock_time_ns of the row (t, l, s) and changes nothing else in locks.
C3_HoldAccounted ==
    [][\A t \in Threads :
        \A m \in Mutexes :
            /\ (/\ Fired("probe_mutex_lock_return")
                /\ last'.thread = t
                /\ last'.rc = 0
                /\ PendingWaitOf(t) # NoEntry
                /\ PendingWaitOf(t).mtx = m)
                  => PendingHoldOf(t, m)'
                        = [timestamp |-> clock', stack_id |-> last'.stack_id]
            /\ (PendingHoldOf(t, m)' # PendingHoldOf(t, m))
                  => /\ last'.thread = t
                     /\ \/ /\ last'.fn = "probe_mutex_lock_return"
                           /\ last'.rc = 0
                           /\ PendingWaitOf(t) # NoEntry
                           /\ PendingWaitOf(t).mtx = m
                        \/ /\ last'.fn = "probe_mutex_unlock"
                           /\ last'.mtx = m
            /\ (/\ Fired("probe_mutex_unlock")
                /\ last'.thread = t
                /\ last'.mtx = m
                /\ PendingHoldOf(t, m) # NoEntry)
                  => LET h == PendingHoldOf(t, m)
                         key == <<t.tid, m, h.stack_id>>
                     IN  /\ key \in DOMAIN locks
                         /\ clock' >= h.timestamp
                         /\ locks' = [locks EXCEPT ![key].lock_time_ns =
                                        @ + (clock' - h.timestamp)]
       ]_vars

\* C3 witness: an unlock has just been matched and its hold of 50000 ns is in
\* a row whose wait was 1500 ns.
C3_Witness ==
    /\ last.fn = "probe_mutex_unlock"
    /\ last.entry # NoEntry
    /\ LET key == <<last.thread.tid, last.mtx, last.entry.stack_id>>
       IN  /\ key \in DOMAIN locks
           /\ locks[key] = [wait_time_ns |-> 1500, lock_time_ns |-> 50000,
                            enter_count |-> 1]

\* C4: a probe_mutex_lock_return of a thread that has no pending wait changes
\* no table: no row of locks, no histogram slot, no pending hold.
C4_MissedEntryDropped ==
    [][\A t \in Threads :
        (/\ Fired("probe_mutex_lock_return")
         /\ last'.thread = t
         /\ PendingWaitOf(t) = NoEntry)
           => UNCHANGED tables
       ]_vars

\* C4 witness: a return has just been dropped, after an earlier return of the
\* same thread had consumed its pending wait, and further probes can fire.
C4_Witness ==
    /\ last.fn = "probe_mutex_lock_return"
    /\ last.entry = NoEntry
    /\ nevents < MaxEvents
    /\ HistTotal(mutex_wait_hist) = 1
    /\ \E key \in DOMAIN locks : key[1] = last.thread.tid

\* C5: a probe_mutex_unlock(l) of a thread that has no pending hold on l
\* changes no table: no row of locks, no histogram slot, no pending wait and
\* no pending hold.
C5_MissedLockDropped ==
    [][\A t \in Threads :
        (/\ Fired("probe_mutex_unlock")
         /\ last'.thread = t
         /\ PendingHoldOf(t, last'.mtx) = NoEntry)
           => UNCHANGED tables
       ]_vars

\* C5 witness: the second of two unlocks of a mutex has just been dropped: the
\* first one released the hold.
C5_Witness ==
    /\ last.fn = "probe_mutex_unlock"
    /\ last.entry = NoEntry
    /\ HistTotal(mutex_lock_hist) = 1
    /\ \E key \in DOMAIN locks :
        /\ key[1] = last.thread.tid
        /\ key[2] = last.mtx
        /\ locks[key].lock_time_ns > 0

\* the entries of the three per-thread tables that are keyed by thread id tid
ThreadView(st, tid) ==
    [locks |-> [k \in {x \in DOMAIN st.locks : x[1] = tid} |-> st.locks[k]],
     lock_start |-> [k \in {x \in DOMAIN st.lock_start : x = tid} |-> st.lock_start[k]],
     lock_end |-> [k \in {x \in DOMAIN st.lock_end : x[1] = tid} |-> st.lock_end[k]]]

\* C6: in every interleaving of the probes of the threads, the rows of locks,
\* the pending wait and the pending holds keyed by a thread are exactly what
\* that thread's own probes, run alone at the same clock values, produce; so
\* no probe of another thread changes them, and every entry is keyed by the
\* thread that produced it.
C6_ThreadIsolation ==
    /\ \A tid \in Tids : ThreadView(Tables, tid) = alone[tid]
    /\ \A k \in DOMAIN locks : k[1] \in Tids
    /\ \A k \in DOMAIN lock_end : k[1] \in Tids
    /\ DOMAIN lock_start \subseteq Tids

\* C6 witness: both threads waited on the same mutex from the same call site
\* with overlapping waits (each of 3000 ns, four probes 1500 ns apart) and have
\* one row each.
C6_Witness ==
    \E m \in Mutexes, s \in StackIds :
        /\ DOMAIN locks = {<<1, m, s>>, <<5, m, s>>}
        /\ locks[<<1, m, s>>].wait_time_ns = 3000
        /\ locks[<<5, m, s>>].wait_time_ns = 3000
        /\ clock = 6000

\* floor(log2(d / 1000)) of a duration of d nanoseconds, d / 1000 the integer
\* number of microseconds; the lowest bucket for less than a microsecond
Bucket(d) ==
    LET us == d \div 1000
    IN  IF us = 0 THEN 0
        ELSE CHOOSE b \in 0..30 : 2^b <= us /\ us < 2^(b + 1)

\* the slots the handlers can reach within the bounds
Slots == 0..31

\* C7: every wait duration (a matched probe_mutex_lock_return) adds one count
\* to slot floor(log2(d / 1000)) of the wait histogram and every hold duration
\* (a matched probe_mutex_unlock) one count to that slot of the hold
\* histogram, and no other slot changes; 1023 us goes to slot 9 and 1024 us to
\* slot 10, and a duration below 1 us goes to slot 0.
C7_HistogramSlot ==
    [][\A t \in Threads :
        /\ (/\ Fired("probe_mutex_lock_return")
            /\ last'.thread = t
            /\ PendingWaitOf(t) # NoEntry)
              => LET d == clock' - PendingWaitOf(t).timestamp
                 IN  /\ \A b \in Slots :
                            CountAt(mutex_wait_hist', b)
                              = CountAt(mutex_wait_hist, b)
                                  + (IF b = Bucket(d) THEN 1 ELSE 0)
                     /\ DOMAIN mutex_wait_hist' \subseteq Slots
                     /\ mutex_lock_hist' = mutex_lock_hist
                     /\ (d \in 1023000..1023999) => Bucket(d) = 9
                     /\ (d \in 1024000..1024999) => Bucket(d) = 10
                     /\ d < 1000 => Bucket(d) = 0
        /\ (/\ Fired("probe_mutex_unlock")
            /\ last'.thread = t
            /\ PendingHoldOf(t, last'.mtx) # NoEntry)
              => LET d == clock' - PendingHoldOf(t, last'.mtx).timestamp
                 IN  /\ \A b \in Slots :
                            CountAt(mutex_lock_hist', b)
                              = CountAt(mutex_lock_hist, b)
                                  + (IF b = Bucket(d) THEN 1 ELSE 0)
                     /\ DOMAIN mutex_lock_hist' \subseteq Slots
                     /\ mutex_wait_hist' = mutex_wait_hist
       ]_vars

\* C7 witness: a wait of 1023 us and a hold of 1024 us have been recorded, in
\* slot 9 of the wait histogram and slot 10 of the hold histogram.
C7_Witness ==
    /\ last.fn = "probe_mutex_unlock"
    /\ last.entry # NoEntry
    /\ clock - last.entry.timestamp = 1024000
    /\ \E key \in DOMAIN locks : locks[key].wait_time_ns = 1023000
    /\ mutex_wait_hist = (9 :> 1)
    /\ mutex_lock_hist = (10 :> 1)

\* C7 witness of the clamp: a wait of 999 ns has been recorded in slot 0.
C7_SubMicrosecondReached ==
    /\ last.fn = "probe_mutex_lock_return"
    /\ last.entry # NoEntry
    /\ clock - last.entry.timestamp = 999
    /\ mutex_wait_hist = (0 :> 1)

----------------------------------------------------------------------------
(* Claims about a recorded sequence of probes (SpecLife) *)

IsInit(e, m, s) == e.fn = "probe_mutex_init" /\ e.mtx = m /\ e.stack_id = s
IsLock(e, t, m) == e.fn = "probe_mutex_lock" /\ e.thread = t /\ e.mtx = m
IsReturn(e, t, s, rc) ==
    e.fn = "probe_mutex_lock_return" /\ e.thread = t /\ e.stack_id = s /\ e.rc = rc
IsUnlock(e, t, m) == e.fn = "probe_mutex_unlock" /\ e.thread = t /\ e.mtx = m

\* the probes fired are exactly Init(l, S1), AttemptStart(t, l), successful
\* AttemptEnd(t, S2), Release(t, l)
FullLifecycle(t, l, s1, s2) ==
    /\ Len(trace) = 4
    /\ IsInit(trace[1], l, s1)
    /\ IsLock(trace[2], t, l)
    /\ IsReturn(trace[3], t, s2, 0)
    /\ IsUnlock(trace[4], t, l)

\* C8: after exactly Init(l, S1), AttemptStart(t, l, T0), successful
\* AttemptEnd(t, T1, S2), Release(t, l, T2) from the empty tables, locks holds
\* the one row (t, l, S2) = {T1 - T0, T2 - T1, 1}, each histogram holds one
\* count, and lock_start and lock_end are empty; with T0 = 0, T1 = 50000,
\* T2 = 150000 the row is {50000, 100000, 1}, the wait is in slot 5 and the
\* hold in slot 6.
C8_FullLifecycle ==
    \A t \in LifeThreads, l \in Mutexes, s1 \in LifeInitStacks, s2 \in LifeLockStacks :
        FullLifecycle(t, l, s1, s2)
          => LET T0 == trace[2].now
                 T1 == trace[3].now
                 T2 == trace[4].now
             IN  /\ T0 <= T1 /\ T1 <= T2
                 /\ DOMAIN locks = {<<t.tid, l, s2>>}
                 /\ locks[<<t.tid, l, s2>>]
                      = [wait_time_ns |-> T1 - T0, lock_time_ns |-> T2 - T1,
                         enter_count |-> 1]
                 /\ HistTotal(mutex_wait_hist) = 1
                 /\ HistTotal(mutex_lock_hist) = 1
                 /\ lock_start = EmptyTable
                 /\ lock_end = EmptyTable
                 /\ init_stacks = (l :> s1)
                 /\ (T0 = 0 /\ T1 = 50000 /\ T2 = 150000)
                      => /\ locks[<<t.tid, l, s2>>]
                              = [wait_time_ns |-> 50000, lock_time_ns |-> 100000,
                                 enter_count |-> 1]
                         /\ mutex_wait_hist = (5 :> 1)
                         /\ mutex_lock_hist = (6 :> 1)

\* C8 witness: the scenario of the specification has run to its end.
C8_Witness ==
    /\ \E t \in LifeThreads : t.tid = 1 /\ FullLifecycle(t, 256, 1, 2)
    /\ trace[2].now = 0
    /\ trace[3].now = 50000
    /\ trace[4].now = 150000

\* the probes fired are exactly AttemptStart(t, l1), AttemptStart(t, l2),
\* AttemptEnd(t, s, rc), recorded in sq
Overwritten(sq, t, l1, l2, s, rc) ==
    /\ Len(sq) = 3
    /\ IsLock(sq[1], t, l1)
    /\ IsLock(sq[2], t, l2)
    /\ IsReturn(sq[3], t, s, rc)

\* C10: probe_mutex_lock(l2) at T0' of a thread replaces whatever pending wait
\* the thread had by (l2, T0') and changes no other table; the thread's next
\* probe_mutex_lock_return at T1 adds T1 - T0' to the row (t, l2, s), changes
\* no other row and removes the pending wait; after exactly
\* AttemptStart(t, l1), AttemptStart(t, l2), AttemptEnd(t, s) the tables hold
\* nothing of the wait on l1; lock_start never holds more than one entry per
\* thread.
C10_LastWriteWins ==
    [][\A t \in Threads :
        /\ (Fired("probe_mutex_lock") /\ last'.thread = t)
              => /\ PendingWaitOf(t)' = [mtx |-> last'.mtx, timestamp |-> clock']
                 /\ DOMAIN lock_start' = DOMAIN lock_start \cup {t.tid}
                 /\ \A u \in DOMAIN lock_start \ {t.tid} :
                        lock_start'[u] = lock_start[u]
                 /\ UNCHANGED <<locks, mutex_wait_hist, mutex_lock_hist, lock_end,
                                init_stacks>>
        /\ (/\ Fired("probe_mutex_lock_return")
            /\ last'.thread = t
            /\ PendingWaitOf(t) # NoEntry)
              => LET e == PendingWaitOf(t)
                     key == <<t.tid, e.mtx, last'.stack_id>>
                     old == RowOf(locks, key)
                 IN  /\ DOMAIN locks' = DOMAIN locks \cup {key}
                     /\ \A k \in DOMAIN locks \ {key} : locks'[k] = locks[k]
                     /\ locks'[key].wait_time_ns
                            = old.wait_time_ns + (clock' - e.timestamp)
                     /\ PendingWaitOf(t)' = NoEntry
        /\ \A l1 \in Mutexes, l2 \in Mutexes, s \in StackIds, rc \in RetCodes :
            (l1 # l2 /\ Overwritten(trace', t, l1, l2, s, rc))
              => /\ DOMAIN locks' = {<<t.tid, l2, s>>}
                 /\ locks'[<<t.tid, l2, s>>].wait_time_ns
                        = trace'[3].now - trace'[2].now
                 /\ HistTotal(mutex_wait_hist') = 1
                 /\ lock_start' = EmptyTable
        /\ Cardinality({k \in DOMAIN lock_start' : k = t.tid}) <= 1
        /\ DOMAIN lock_start' \subseteq Tids
       ]_vars

\* C10 witness: AttemptStart(1, 0x100) at 50000, AttemptStart(1, 0x200) at
\* 100000, successful AttemptEnd at 200000: the row of 0x200 holds 100000 ns.
C10_Witness ==
    /\ \E t \in LifeThreads, s \in LifeLockStacks :
         /\ Overwritten(trace, t, 256, 512, s, 0)
         /\ locks = (<<t.tid, 512, s>> :>
                        [wait_time_ns |-> 100000, lock_time_ns |-> 0, enter_count |-> 1])
    /\ trace[1].now = 50000
    /\ trace[2].now = 100000
    /\ trace[3].now = 200000

----------------------------------------------------------------------------
(* Claims about the reporting pass (SpecReport) *)

\* the wait_time_ns of the rows of a section, in the order rendered
RenderedWaits(section) ==
    [j \in 1..Len(section.rows) |-> section.rows[j].v.wait_time_ns]

\* C9: a reporting pass renders one section per thread id that has a row in
\* locks, the section holds each row of that thread exactly once, with the
\* values of the table, and the rows of a section are in descending order of
\* wait_time_ns; three rows of thread 5 with 300, 100 and 200 ns are rendered
\* 300, 200, 100.
C9_GroupedAndSorted ==
    last.fn = "run"
      => /\ {report.threads[i].tid : i \in 1..Len(report.threads)}
                = {k[1] : k \in DOMAIN locks}
         /\ \A i, j \in 1..Len(report.threads) :
                report.threads[i].tid = report.threads[j].tid => i = j
         /\ \A i \in 1..Len(report.threads) :
                LET section == report.threads[i]
                    n == Len(section.rows)
                IN  /\ {section.rows[j].k : j \in 1..n}
                            = {k \in DOMAIN locks : k[1] = section.tid}
                    /\ n = Cardinality({k \in DOMAIN locks : k[1] = section.tid})
                    /\ \A j \in 1..n : section.rows[j].v = locks[section.rows[j].k]
                    /\ \A j, k \in 1..n :
                            j < k => section.rows[j].v.wait_time_ns
                                        >= section.rows[k].v.wait_time_ns
                    /\ (/\ section.tid = 5
                        /\ n = 3
                        /\ {section.rows[j].v.wait_time_ns : j \in 1..n} = {300, 100, 200})
                          => RenderedWaits(section) = <<300, 200, 100>>

\* C9 witness: a pass has rendered a section for thread 1 and a section for
\* thread 5, whose three rows of 300, 100 and 200 ns come out as 300, 200, 100.
C9_Witness ==
    /\ last.fn = "run"
    /\ Len(report.threads) = 2
    /\ report.threads[1].tid = 1
    /\ report.threads[2].tid = 5
    /\ RenderedWaits(report.threads[2]) = <<300, 200, 100>>
    /\ locks[<<5, 256, 1>>].wait_time_ns = 300
    /\ locks[<<5, 256, 2>>].wait_time_ns = 100
    /\ locks[<<5, 512, 1>>].wait_time_ns = 200

\* the rows rendered by the last pass, over all sections
RenderedRows ==
    UNION {{report.threads[i].rows[j] : j \in 1..Len(report.threads[i].rows)} :
              i \in 1..Len(report.threads)}

\* C11: in a reporting pass the init records are numbered #1, #2, ... in the
\* order the pass enumerates them, starting again at #1 in every pass, so
\* distinct lock addresses get distinct display ids; a row whose lock address
\* has an init record is rendered with that display id, and a row whose lock
\* address has none is rendered with the symbol resolver's decoding of the
\* address.
C11_DisplayIds ==
    last.fn = "run"
      => LET n == Len(report.inits)
         IN  /\ {report.inits[i].mtx : i \in 1..n} = DOMAIN init_stacks
             /\ n = Cardinality(DOMAIN init_stacks)
             /\ \A i \in 1..n : report.inits[i].mutex_id = <<"#", i>>
             /\ \A i, j \in 1..n :
                    report.inits[i].mtx # report.inits[j].mtx
                        => report.inits[i].mutex_id # report.inits[j].mutex_id
             /\ \A row \in RenderedRows :
                    /\ \A i \in 1..n :
                          report.inits[i].mtx = row.k[2] => row.mutex = <<"#", i>>
                    /\ row.k[2] \notin DOMAIN init_stacks
                          => row.mutex = <<"decode_addr", row.k[2]>>

\* C11 witness: a pass that enumerated the init record of 0x100 only has
\* rendered a row on 0x100 as #1 and a row on 0x200 by its decoded address.
C11_Witness ==
    /\ last.fn = "run"
    /\ DOMAIN init_stacks = {256}
    /\ \E row \in RenderedRows : row.k[2] = 256 /\ row.mutex = <<"#", 1>>
    /\ \E row \in RenderedRows : row.k[2] = 512 /\ row.mutex = <<"decode_addr", 512>>

\* C11, second case: with two init records the pass that enumerates 0x200
\* first renders the rows on 0x100 as #2.
C11_SecondIdReached ==
    /\ last.fn = "run"
    /\ Len(report.inits) = 2
    /\ report.inits[1].mtx = 512
    /\ \E row \in RenderedRows : row.k[2] = 256 /\ row.mutex = <<"#", 2>>

\* C12: a reporting pass is read-only and never holds a probe back: the step
\* of a pass changes no init record, pending wait, pending hold, row of locks
\* or histogram bucket, nor the clock or the number of probes fired, so every
\* probe that could fire before the pass can fire after it with the same
\* effect, and the tables reached by a sequence of probes do not depend on
\* the passes run in between.
C12_PassReadOnly ==
    [][last'.fn = "run"
         => /\ init_stacks' = init_stacks
            /\ lock_start' = lock_start
            /\ lock_end' = lock_end
            /\ locks' = locks
            /\ mutex_wait_hist' = mutex_wait_hist
            /\ mutex_lock_hist' = mutex_lock_hist
            /\ clock' = clock
            /\ nevents' = nevents
            /\ alone' = alone]_vars

\* C12 witness: a pass has run after a probe fired on tables that hold rows
\* and histogram counts, and rendered them.
C12_Witness ==
    /\ last.fn = "run"
    /\ nevents = 1
    /\ Len(report.threads) >= 1
    /\ HistTotal(mutex_wait_hist) >= 1
    /\ report.wait_hist = mutex_wait_hist

----------------------------------------------------------------------------
(* Claims about pending entries and the durable statistics (Spec) *)

\* C14: a probe_mutex_lock_return that finds the pending wait of its thread
\* consumes it, whether the attempt succeeded or failed: after any return
\* probe of thread t lock_start has no entry for t, so a return probe of t
\* that directly follows another one of t is dropped without changing a
\* table, and one probe_mutex_lock is never accounted twice: the returns
\* counted in the wait histogram and the waits still pending never outnumber
\* the lock probes that can have fired.
C14_WaitConsumedOnce ==
    [][\A t \in Threads :
          (Fired("probe_mutex_lock_return") /\ last'.thread = t)
            => /\ PendingWaitOf(t)' = NoEntry
               /\ (last.fn = "probe_mutex_lock_return" /\ last.thread = t)
                     => tables' = tables
               /\ PendingWaitOf(t) = NoEntry => tables' = tables
               /\ 2 * HistTotal(mutex_wait_hist') + Cardinality(DOMAIN lock_start')
                     <= nevents']_vars

\* C14 witness: three probes have fired, a lock, its return and a second
\* return of the same thread, which found no pending wait; the wait is
\* counted once.
C14_Witness ==
    /\ nevents = 3
    /\ last.fn = "probe_mutex_lock_return"
    /\ last.entry = NoEntry
    /\ lock_start = EmptyTable
    /\ HistTotal(mutex_wait_hist) = 1
    /\ \E key \in DOMAIN locks :
          key[1] = last.thread.tid /\ locks[key].wait_time_ns \in Deltas

\* C15: a probe_mutex_unlock of thread t on mutex l that finds the pending
\* hold of (t, l) consumes it: after any unlock probe of t on l lock_end has
\* no entry for (t, l), the pending holds of t on other mutexes are as they
\* were, and an unlock probe of t on l that finds no pending hold, as the
\* second of two in a row does, adds nothing to lock_time_ns or to the hold
\* histogram.
C15_HoldConsumedOnce ==
    [][\A t \in Threads, l \in Mutexes :
          (Fired("probe_mutex_unlock") /\ last'.thread = t /\ last'.mtx = l)
            => /\ PendingHoldOf(t, l)' = NoEntry
               /\ \A other \in Mutexes \ {l} :
                     PendingHoldOf(t, other)' = PendingHoldOf(t, other)
               /\ PendingHoldOf(t, l) = NoEntry
                     => locks' = locks /\ mutex_lock_hist' = mutex_lock_hist
               /\ (last.fn = "probe_mutex_unlock" /\ last.thread = t /\ last.mtx = l)
                     => locks' = locks /\ mutex_lock_hist' = mutex_lock_hist]_vars

\* C15 witness: thread 5 held 0x100 and 0x200 and released 0x100; the hold of
\* 0x100 is counted and gone, the hold of 0x200 is still pending.
C15_Witness ==
    /\ last.fn = "probe_mutex_unlock"
    /\ last.thread.tid = 5
    /\ last.mtx = 256
    /\ last.entry # NoEntry
    /\ DOMAIN lock_end = {<<5, 512>>}
    /\ HistTotal(mutex_lock_hist) = 1
    /\ <<5, 256, 1>> \in DOMAIN locks
    /\ locks[<<5, 256, 1>>].lock_time_ns > 0

\* C16: the durable statistics only grow: a step never removes a row of
\* locks, never lowers the wait_time_ns, lock_time_ns or enter_count of a
\* row, and never lowers or resets the count of a bucket of the wait or the
\* hold histogram; the clock the handlers read never goes back.
C16_StatisticsMonotone ==
    [][/\ clock' >= clock
       /\ \A key \in DOMAIN locks :
              /\ key \in DOMAIN locks'
              /\ locks'[key].wait_time_ns >= locks[key].wait_time_ns
              /\ locks'[key].lock_time_ns >= locks[key].lock_time_ns
              /\ locks'[key].enter_count >= locks[key].enter_count
       /\ \A slot \in Slots :
              /\ CountAt(mutex_wait_hist', slot) >= CountAt(mutex_wait_hist, slot)
              /\ CountAt(mutex_lock_hist', slot) >= CountAt(mutex_lock_hist, slot)]_vars

\* C16 witness: a row has accumulated waits of 50000 ns and 1500 ns from two
\* acquisitions, and the wait histogram holds both.
C16_Witness ==
    /\ nevents = 4
    /\ last.fn = "probe_mutex_lock_return"
    /\ \E key \in DOMAIN locks :
          /\ locks[key].wait_time_ns = 51500
          /\ locks[key].enter_count = 2
    /\ CountAt(mutex_wait_hist, log2_slot(50000)) = 1
    /\ CountAt(mutex_wait_hist, log2_slot(1500)) = 1

\* C18: probe_mutex_init is an upsert confined to init_stacks: after the
\* probe on mutex l from call site s init_stacks[l] is s, whether or not l had
\* a record, and the records of other mutexes are as they were; no other
\* probe changes or deletes an init record, so the record of l is the call
\* site of the most recent init of l; the init probe changes no pending wait,
\* pending hold, row of locks or histogram bucket.
C18_InitUpsert ==
    [][/\ \A l \in Mutexes, s \in StackIds :
              (Fired("probe_mutex_init") /\ last'.mtx = l /\ last'.stack_id = s)
                => /\ DOMAIN init_stacks' = DOMAIN init_stacks \cup {l}
                   /\ init_stacks'[l] = s
                   /\ \A other \in DOMAIN init_stacks \ {l} :
                         init_stacks'[other] = init_stacks[other]
                   /\ UNCHANGED <<lock_start, lock_end, locks,
                                  mutex_wait_hist, mutex_lock_hist>>
       /\ ~Fired("probe_mutex_init") => init_stacks' = init_stacks]_vars

\* C18 witness: a mutex that had an init record was initialised again from
\* another call site, while a row and a histogram count existed; the record
\* is the later call site.
C18_Witness ==
    /\ last.fn = "probe_mutex_init"
    /\ last.entry # NoEntry
    /\ last.entry.stack_id # last.stack_id
    /\ init_stacks[last.mtx] = last.stack_id
    /\ DOMAIN locks # {}
    /\ HistTotal(mutex_wait_hist) = 1

\* the row of locks that a pending hold of lock_end points to
RowKeyOfHold(key) == thread_mutex_key(key[1], key[2], lock_end[key].stack_id)

\* C19: whenever lock_end holds (timestamp, stack_id) for (thread, mutex),
\* locks has the row (thread, mutex, stack_id) and its enter_count is at least
\* 1; so the unlock probe never returns for a missing row: every unlock probe
\* that found a pending hold has counted it in the hold histogram and in the
\* lock_time_ns of that row and has removed the pending hold.
C19_HoldHasRow ==
    /\ \A key \in DOMAIN lock_end :
          /\ RowKeyOfHold(key) \in DOMAIN locks
          /\ locks[RowKeyOfHold(key)].enter_count >= 1
    /\ (last.fn = "probe_mutex_unlock" /\ last.entry # NoEntry)
          => /\ PendingHoldOf(last.thread, last.mtx) = NoEntry
             /\ HistTotal(mutex_lock_hist) >= 1
             /\ locks[thread_mutex_key(last.thread.tid, last.mtx, last.entry.stack_id)]
                    .lock_time_ns >= clock - last.entry.timestamp

\* C19 witness: the thread acquired 0x100 at call site 1 and again at call
\* site 2 and released it; the pending hold it found pointed to the row of
\* call site 2, which got the hold time.
C19_Witness ==
    /\ last.fn = "probe_mutex_unlock"
    /\ last.mtx = 256
    /\ last.entry # NoEntry
    /\ last.entry.stack_id = 2
    /\ lock_end = EmptyTable
    /\ DOMAIN locks = {<<5, 256, 1>>, <<5, 256, 2>>}
    /\ locks[<<5, 256, 1>>].enter_count = 1
    /\ locks[<<5, 256, 1>>].lock_time_ns = 0
    /\ locks[<<5, 256, 2>>].enter_count = 1
    /\ locks[<<5, 256, 2>>].lock_time_ns = clock - last.entry.timestamp

\* C19, a pending hold exists: the hold of 0x200 is pending and its row has
\* enter_count 2.
C19_PendingHoldReached ==
    /\ <<5, 512>> \in DOMAIN lock_end
    /\ locks[RowKeyOfHold(<<5, 512>>)].enter_count = 2

\* the sum of enter_count over the rows of a locks table
EnterTotal(table) ==
    SumOver([key \in DOMAIN table |-> table[key].enter_count], DOMAIN table)

\* acquisitions counted in enter_count that are neither pending in lock_end
\* nor counted in the hold histogram
LostHolds(st) ==
    EnterTotal(st.locks) - HistTotal(st.mutex_lock_hist) - Cardinality(DOMAIN st.lock_end)

\* this step is a successful return of a thread on a mutex whose earlier
\* acquisition by that thread is still pending in lock_end
Reacquired ==
    /\ Fired("probe_mutex_lock_return")
    /\ last'.rc = 0
    /\ last'.entry # NoEntry
    /\ \E t \in Threads, l \in Mutexes :
          last'.thread = t /\ last'.entry.mtx = l /\ PendingHoldOf(t, l) # NoEntry

\* C20: the hold histogram total plus the number of pending holds is at most
\* the sum of enter_count over all rows, which is at most the wait histogram
\* total.  The first two are equal at the start, and their difference grows,
\* by one, exactly in the steps in which a thread acquires a mutex again that
\* it has not released (which overwrites the pending hold); so the equality
\* fails exactly when such a step has happened.
C20_CountsOrdered ==
    [][/\ nevents = 0 => LostHolds(Tables) = 0
       /\ HistTotal(mutex_lock_hist') + Cardinality(DOMAIN lock_end') <= EnterTotal(locks')
       /\ EnterTotal(locks') <= HistTotal(mutex_wait_hist')
       /\ LostHolds(Tables)' = LostHolds(Tables) + (IF Reacquired THEN 1 ELSE 0)]_vars

\* C20 witness: a thread acquired a mutex twice without releasing it: two
\* acquisitions are counted, one hold is pending, none is in the histogram.
C20_Witness ==
    /\ last.fn = "probe_mutex_lock_return"
    /\ last.rc = 0
    /\ last.entry # NoEntry
    /\ EnterTotal(locks) = 2
    /\ Cardinality(DOMAIN lock_end) = 1
    /\ HistTotal(mutex_lock_hist) = 0
    /\ HistTotal(mutex_wait_hist) = 2

\* C20, strict on the right: a failed attempt is in the wait histogram and
\* not in enter_count.
C20_FailedAttemptReached ==
    /\ EnterTotal(locks) = 1
    /\ HistTotal(mutex_wait_hist) = 2
    /\ Cardinality(DOMAIN lock_end) = 1

----------------------------------------------------------------------------
(* Claims about the command line (SpecMain) *)

\* C13: started without the process id argument the script prints one usage
\* line and ends with a non-zero exit status, with no probe attached; started
\* with a process id it enters the reporting loop and never ends on its own.
C13_UsageExitNonZero ==
    /\ (Len(proc.argv) < 2 /\ proc.pc # "main")
          => /\ proc.pc = "exited"
             /\ Len(proc.stdout) = 1
             /\ ~proc.attached
             /\ proc.exit_status # 0
    /\ (Len(proc.argv) >= 2 /\ proc.pc # "main" /\ ~ValueError(proc.argv[2]))
          => /\ proc.pc = "loop"
             /\ proc.attached
             /\ proc.pid = 42
             /\ proc.exit_status = StillRunning

\* C13 without the exit status: the usage line is printed, no probe is ever
\* attached and no table is written; with a process id the script stays in
\* the loop.
C13_UsageNoAttach ==
    /\ (Len(proc.argv) < 2 /\ proc.pc # "main")
          => /\ proc.pc = "exited"
             /\ proc.stdout = <<<<"USAGE:", ProgName, "pid">>>>
             /\ ~proc.attached
             /\ nevents = 0
             /\ Tables = EmptyTables
    /\ (Len(proc.argv) >= 2 /\ proc.pc # "main" /\ ~ValueError(proc.argv[2]))
          => /\ proc.pc = "loop"
             /\ proc.attached
             /\ proc.pid = 42
             /\ proc.exit_status = StillRunning

\* C13, the case reached: the script was started without an argument and has
\* exited.
C13_UsageReached ==
    /\ Len(proc.argv) < 2
    /\ proc.pc = "exited"

----------------------------------------------------------------------------
(* Claims about overlapping handlers (SpecOverlap) *)

\* the threads that are between the two steps of handler fn
InFlight(fn) == {tid \in Tids : inflight[tid].fn = fn}

\* C17: no histogram increment is lost when the handlers of different
\* threads overlap: the wait histogram total is the number of lock return
\* probes that found a pending wait, less those that have not yet reached
\* their increment, and the hold histogram total is the number of unlock
\* probes that found the pending hold and its row, less those that have not
\* yet reached their increment; so once every handler has returned the
\* totals equal the numbers of matched events, also when the handlers of two
\* threads were incrementing the same bucket at the same time.
C17_NoIncrementLost ==
    /\ HistTotal(mutex_wait_hist) + Cardinality(InFlight("probe_mutex_lock_return"))
          = matched.waits
    /\ HistTotal(mutex_lock_hist) + Cardinality(InFlight("probe_mutex_unlock"))
          = matched.holds

\* C17 witness: the return handlers of both threads overlapped on one
\* bucket, the bucket changed under one of them between its two steps, and
\* after both returned the bucket holds 2.
C17_Witness ==
    /\ \A tid \in Tids : inflight[tid] = NoCall
    /\ matched.waits = 2
    /\ matched.stale_waits = 1
    /\ \E slot \in Slots : mutex_wait_hist = slot :> 2

\* C17, the hold histogram: the unlock handlers of both threads overlapped
\* on one bucket.
C17_HoldOverlapReached ==
    /\ \A tid \in Tids : inflight[tid] = NoCall
    /\ matched.holds = 2
    /\ matched.stale_holds = 1
    /\ \E slot \in Slots : mutex_lock_hist = slot :> 2

\* the two steps of a handler, run with nothing in between, do what the
\* handler does as a whole
C17_StepsMakeHandler ==
    [][/\ \A t \in Threads, s \in HistStacks, rc \in RetCodes :
            (/\ Fired("probe_mutex_lock_return")
             /\ last'.thread = t /\ last'.stack_id = s /\ last'.rc = rc
             /\ last'.entry # NoEntry)
              => lock_return_finish(Tables, t.tid, inflight[t.tid].slot,
                                    inflight[t.tid].seen)'
                    = probe_mutex_lock_return(Tables, t, s, rc, clock')
       /\ \A t \in Threads, m \in HistMutexes :
            (/\ Fired("probe_mutex_unlock")
             /\ last'.thread = t /\ last'.mtx = m
             /\ last'.entry # NoEntry)
              => unlock_finish(Tables, t.tid, m, inflight[t.tid].slot,
                               inflight[t.tid].seen)'
                    = probe_mutex_unlock(Tables, t, m, clock')]_vars

====
